---- MODULE Spec2Model ----
(***************************************************************************)
(* Model of the roster/directory reconciliation engine of gsuite_setup:    *)
(* OUManager (path derivation), SyncEngine.determineActions (planner) and  *)
(* SyncEngine.sync / executeActions (gate and batch executor), and        *)
(* GoogleAPIClient.makeAPIRequest (retry loop of the directory client).    *)
(* Strings are TLA+ strings; JavaScript string methods are operators that  *)
(* compute character by character with SubSeq and \o.                      *)
(***************************************************************************)
EXTENDS Integers, Sequences, FiniteSets, TLC

VARIABLES
    pc,               \* position of the run
    now,              \* value of new Date(): [year, month]
    config,           \* Config fields read by SyncEngine
    students,         \* roster handed to sync / determineActions
    existingUsers,    \* directory account snapshot (listUsers result)
    existingDevices,  \* directory device snapshot, serial -> device
    actions,          \* plan returned by determineActions
    firstPlan,        \* plan of the previous run (re-planning)
    applied,          \* TRUE when every action of firstPlan is reflected
    missingOUs,       \* ensureRequiredOUs: paths still to create, in order
    calls,            \* directory-client calls issued so far, per operation
    confirmation,     \* "none" | "confirmed" | "denied"
    batchStart,       \* executeActions: loop index i (0-based, as in the code)
    inflight,         \* positions of the actions whose promise is pending
    settled,          \* position -> SyncResult of the settled promises of the batch
    dispatched,       \* position -> number of times executeAction was called
    apiFailed,        \* positions whose handler or directory call failed
    results,          \* executeActions: results collected so far
    summary,          \* SyncSummary
    input,            \* arguments of a call of an OUManager method
    output,           \* what the call returned
    attempt,          \* makeAPIRequest: loop variable attempt
    responses,        \* makeAPIRequest: what each fetch of the call met
    delay             \* makeAPIRequest: milliseconds of the last wait

planVars == <<now, config, students, existingUsers, existingDevices,
              actions, firstPlan, applied>>

runVars == <<missingOUs, calls, confirmation, batchStart, inflight, settled, dispatched,
             apiFailed, results, summary>>

callVars == <<input, output>>

requestVars == <<attempt, responses, delay>>

vars == <<pc, planVars, runVars, callVars, requestVars>>

-----------------------------------------------------------------------------
(* JavaScript string primitives *)

\* the lower-case letter of each upper-case letter
LowerOf ==
    [c \in {"A", "B", "C", "D", "E", "F", "G", "H", "I", "J", "K", "L", "M", "N",
            "O", "P", "Q", "R", "S", "T", "U", "V", "W", "X", "Y", "Z"} |->
        CASE c = "A" -> "a" [] c = "B" -> "b" [] c = "C" -> "c" [] c = "D" -> "d"
          [] c = "E" -> "e" [] c = "F" -> "f" [] c = "G" -> "g" [] c = "H" -> "h"
          [] c = "I" -> "i" [] c = "J" -> "j" [] c = "K" -> "k" [] c = "L" -> "l"
          [] c = "M" -> "m" [] c = "N" -> "n" [] c = "O" -> "o" [] c = "P" -> "p"
          [] c = "Q" -> "q" [] c = "R" -> "r" [] c = "S" -> "s" [] c = "T" -> "t"
          [] c = "U" -> "u" [] c = "V" -> "v" [] c = "W" -> "w" [] c = "X" -> "x"
          [] c = "Y" -> "y" [] c = "Z" -> "z"]

RECURSIVE MapChars(_, _, _)
MapChars(s, i, acc) ==
    IF i > Len(s) THEN acc
    ELSE LET c == SubSeq(s, i, i)
         IN MapChars(s, i + 1,
                     acc \o (IF c \in DOMAIN LowerOf THEN LowerOf[c] ELSE c))

toLowerCase(s) == MapChars(s, 1, "")

startsWith(s, prefix) ==
    /\ Len(s) >= Len(prefix)
    /\ SubSeq(s, 1, Len(prefix)) = prefix

includes(s, sub) ==
    \E i \in 1..(Len(s) - Len(sub) + 1) : SubSeq(s, i, i + Len(sub) - 1) = sub

LowerAlnum ==
    {"a", "b", "c", "d", "e", "f", "g", "h", "i", "j", "k", "l", "m", "n",
     "o", "p", "q", "r", "s", "t", "u", "v", "w", "x", "y", "z",
     "0", "1", "2", "3", "4", "5", "6", "7", "8", "9"}

\* s.replace(/[^a-z0-9]/g, '')
RECURSIVE KeepChars(_, _, _, _)
KeepChars(s, keep, i, acc) ==
    IF i > Len(s) THEN acc
    ELSE LET c == SubSeq(s, i, i)
         IN KeepChars(s, keep, i + 1, IF c \in keep THEN acc \o c ELSE acc)

\* s.split('/').filter((p) => p)
RECURSIVE SplitPath(_, _, _, _)
SplitPath(s, i, cur, acc) ==
    IF i > Len(s) THEN (IF cur = "" THEN acc ELSE Append(acc, cur))
    ELSE LET c == SubSeq(s, i, i)
         IN IF c = "/"
            THEN SplitPath(s, i + 1, "", IF cur = "" THEN acc ELSE Append(acc, cur))
            ELSE SplitPath(s, i + 1, cur \o c, acc)

pathParts(s) == SplitPath(s, 1, "", <<>>)

-----------------------------------------------------------------------------
(* OUManager *)

baseStudentOU == config.ouRoot

currentSchoolYear ==
    IF now.month < 6 THEN now.year - 1 ELSE now.year

\* variant: four years until graduation are classified middle
getSchoolLevelFromGradYearStrict(graduationYear) ==
    LET yearsUntilGraduation == graduationYear - currentSchoolYear
    IN IF yearsUntilGraduation < 4 THEN "high"
       ELSE IF yearsUntilGraduation <= 7 THEN "middle"
       ELSE "elementary"

getSchoolLevelFromGradYear(graduationYear) ==
    LET yearsUntilGraduation == graduationYear - currentSchoolYear
    IN IF yearsUntilGraduation <= 4 THEN "high"
       ELSE IF yearsUntilGraduation <= 7 THEN "middle"
       ELSE "elementary"

generateStudentOUName(student) ==
    KeepChars(toLowerCase(student.firstName), LowerAlnum, 1, "")
        \o "." \o KeepChars(toLowerCase(student.lastName), LowerAlnum, 1, "")

\* variant: the path is built without the graduation-year segment
getStudentOUPathNoYear(student) ==
    baseStudentOU \o "/" \o getSchoolLevelFromGradYear(student.graduationYear)
        \o "/" \o generateStudentOUName(student)

getStudentOUPath(student) ==
    baseStudentOU \o "/" \o getSchoolLevelFromGradYear(student.graduationYear)
        \o "/" \o ToString(student.graduationYear)
        \o "/" \o generateStudentOUName(student)

\* variant: an absent current path is not treated as differing
shouldMoveStudentNoAbsent(student, currentOUPath) ==
    /\ currentOUPath # ""
    /\ currentOUPath # getStudentOUPath(student)

\* An absent (undefined) or empty current path is the empty string: both are
\* falsy in JavaScript.
shouldMoveStudent(student, currentOUPath) ==
    IF currentOUPath = "" THEN TRUE
    ELSE currentOUPath # getStudentOUPath(student)

isStudentOU(ouPath) == startsWith(ouPath, baseStudentOU)

isActiveStudentOU(ouPath) ==
    IF ~isStudentOU(ouPath) THEN FALSE
    ELSE /\ ~includes(ouPath, "hidden_aliases")
         /\ ~includes(ouPath, "archived")
         /\ ~includes(ouPath, "suspended")

\* student.status = "" stands for an absent status
getStudentStatus(student) ==
    IF student.status # "" THEN student.status
    ELSE LET hasGraduated ==
                 \/ student.graduationYear < now.year
                 \/ (student.graduationYear = now.year /\ now.month >= 6)
         IN IF hasGraduated THEN "graduated" ELSE "active"

-----------------------------------------------------------------------------
(* SyncEngine.determineActions *)

\* value of an absent optional object (currentUser, currentDevice, a Map miss)
None == [none |-> TRUE]

\* studentsByEmail.get(email): Map.set keeps the last record written for a key
studentsByEmailGet(sts, email) ==
    LET hits == {i \in 1..Len(sts) :
                    sts[i].email # "" /\ toLowerCase(sts[i].email) = email}
    IN IF hits = {} THEN None
       ELSE sts[CHOOSE i \in hits : \A j \in hits : j <= i]

\* studentsByStudentId.get(id)
studentsByStudentIdGet(sts, id) ==
    LET hits == {i \in 1..Len(sts) : sts[i].studentId = id}
    IN IF hits = {} THEN None
       ELSE sts[CHOOSE i \in hits : \A j \in hits : j <= i]

RECURSIVE scanExternalIds(_, _, _)
scanExternalIds(ids, k, sts) ==
    IF k > Len(ids) THEN None
    ELSE LET externalId == ids[k]
             student == IF externalId.type = "custom"
                           /\ externalId.customType = "student_id"
                        THEN studentsByStudentIdGet(sts, externalId.value)
                        ELSE None
         IN IF student # None THEN student
            ELSE scanExternalIds(ids, k + 1, sts)

findStudentByExternalId(user, sts) == scanExternalIds(user.externalIds, 1, sts)

\* variant: the external identifier is looked up before the email
matchStudentIdFirst(user, sts) ==
    LET byId == findStudentByExternalId(user, sts)
    IN IF byId # None THEN byId
       ELSE studentsByEmailGet(sts, toLowerCase(user.primaryEmail))

\* studentsByEmail.get(email) || this.findStudentByExternalId(user, ...)
matchStudent(user, sts) ==
    LET byEmail == studentsByEmailGet(sts, toLowerCase(user.primaryEmail))
    IN IF byEmail # None THEN byEmail ELSE findStudentByExternalId(user, sts)

createPlaceholderStudent(user) ==
    [studentId |-> IF user.id # "" THEN user.id ELSE "unknown",
     firstName |-> user.givenName,
     lastName |-> user.familyName,
     grade |-> "unknown",
     email |-> user.primaryEmail,
     graduationYear |-> 0,
     status |-> "",
     deviceSerial |-> ""]

showPath(p) == IF p = "" THEN "undefined" ELSE p

Action(type, student, user, device, targetOUPath, reason) ==
    [type |-> type, student |-> student, currentUser |-> user,
     currentDevice |-> device, targetOUPath |-> targetOUPath, reason |-> reason]

\* variant: a matched, non-active account is deactivated even when it is
\* already suspended
accountActionsNoSuspendedCheck(user, sts) ==
    LET student == matchStudent(user, sts)
    IN IF student # None
       THEN LET status == getStudentStatus(student)
            IN IF status = "active"
               THEN IF shouldMoveStudent(student, user.orgUnitPath)
                    THEN <<Action("move", student, user, None,
                                  getStudentOUPath(student),
                                  "Move from " \o showPath(user.orgUnitPath)
                                      \o " to " \o getStudentOUPath(student))>>
                    ELSE <<>>
               ELSE <<Action("deactivate", student, user, None,
                             user.orgUnitPath, "Student " \o status)>>
       ELSE IF isActiveStudentOU(user.orgUnitPath) /\ ~user.suspended
            THEN <<Action("deactivate", createPlaceholderStudent(user), user, None,
                          user.orgUnitPath, "Not found in enrollment data")>>
            ELSE <<>>

\* the actions one directory account contributes (body of the accounts loop)
accountActions(user, sts) ==
    LET student == matchStudent(user, sts)
    IN IF student # None
       THEN LET status == getStudentStatus(student)
            IN IF status = "active"
               THEN LET targetOU == getStudentOUPath(student)
                    IN IF shouldMoveStudent(student, user.orgUnitPath)
                       THEN <<Action("move", student, user, None, targetOU,
                                     "Move from " \o showPath(user.orgUnitPath)
                                         \o " to " \o targetOU)>>
                       ELSE <<>>
               ELSE IF ~user.suspended
                    THEN <<Action("deactivate", student, user, None,
                                  user.orgUnitPath, "Student " \o status)>>
                    ELSE <<>>
       ELSE IF isActiveStudentOU(user.orgUnitPath) /\ ~user.suspended
            THEN <<Action("deactivate", createPlaceholderStudent(user), user, None,
                          user.orgUnitPath, "Not found in enrollment data")>>
            ELSE <<>>

\* for (const user of existingUsers): returns the actions and processedEmails
RECURSIVE accountsPass(_, _, _, _, _)
accountsPass(users, sts, i, acc, processedEmails) ==
    IF i > Len(users) THEN [actions |-> acc, processedEmails |-> processedEmails]
    ELSE accountsPass(users, sts, i + 1,
                      acc \o accountActions(users[i], sts),
                      processedEmails \cup {toLowerCase(users[i].primaryEmail)})

shouldCreate(student, processedEmails) ==
    /\ getStudentStatus(student) = "active"
    /\ student.email # ""
    /\ toLowerCase(student.email) \notin processedEmails

\* second for (const student of students)
RECURSIVE rosterPass(_, _, _, _)
rosterPass(sts, i, acc, processedEmails) ==
    IF i > Len(sts) THEN acc
    ELSE rosterPass(sts, i + 1,
            IF shouldCreate(sts[i], processedEmails)
            THEN Append(acc, Action("create", sts[i], None, None,
                                    getStudentOUPath(sts[i]), "New student"))
            ELSE acc,
            processedEmails)

\* variant: the device of a student that is not active is moved as well
deviceNeedsMoveAnyStatus(student, devices) ==
    /\ student.deviceSerial # ""
    /\ student.deviceSerial \in DOMAIN devices
    /\ devices[student.deviceSerial].orgUnitPath # getStudentOUPath(student)

deviceNeedsMove(student, devices) ==
    /\ student.deviceSerial # ""
    /\ student.deviceSerial \in DOMAIN devices
    /\ getStudentStatus(student) = "active"
    /\ devices[student.deviceSerial].orgUnitPath # getStudentOUPath(student)

RECURSIVE addDeviceSyncActions(_, _, _, _)
addDeviceSyncActions(acc, sts, devices, i) ==
    IF i > Len(sts) THEN acc
    ELSE addDeviceSyncActions(
            IF deviceNeedsMove(sts[i], devices)
            THEN LET device == devices[sts[i].deviceSerial]
                     targetOUPath == getStudentOUPath(sts[i])
                 IN Append(acc, Action("move_device", sts[i], None, device,
                                       targetOUPath,
                                       "Move device from "
                                           \o (IF device.orgUnitPath = "" THEN "unknown"
                                               ELSE device.orgUnitPath)
                                           \o " to " \o targetOUPath))
            ELSE acc,
            sts, devices, i + 1)

ofType(acts, kind) == SelectSeq(acts, LAMBDA a : a.type = kind)

plannedActionsDevicesFirst(sts, users, devices) ==
    LET first == accountsPass(users, sts, 1, <<>>, {})
        second == addDeviceSyncActions(first.actions, sts, devices, 1)
    IN rosterPass(sts, 1, second, first.processedEmails)

\* the three passes, before the mode filter
plannedActions(sts, users, devices) ==
    LET first == accountsPass(users, sts, 1, <<>>, {})
        second == rosterPass(sts, 1, first.actions, first.processedEmails)
    IN addDeviceSyncActions(second, sts, devices, 1)

\* variant: the move-only branch filters on the kind of the branch above it
modeFilterCopyPaste(acts) ==
    IF config.createOnly THEN ofType(acts, "create")
    ELSE IF config.moveOnly THEN ofType(acts, "create")
    ELSE IF config.deactivateOnly THEN ofType(acts, "deactivate")
    ELSE acts

modeFilter(acts) ==
    IF config.createOnly THEN ofType(acts, "create")
    ELSE IF config.moveOnly THEN ofType(acts, "move")
    ELSE IF config.deactivateOnly THEN ofType(acts, "deactivate")
    ELSE acts

determineActions(sts, users, devices) ==
    modeFilter(plannedActions(sts, users, devices))

-----------------------------------------------------------------------------
(* The directory after it reflects a plan: the effect of the calls the      *)
(* handlers make (createUser, moveUserToOU, suspendUser,                     *)
(* moveChromeDeviceToOU) when each of them succeeds.                         *)

hasAccount(users, email) ==
    \E i \in 1..Len(users) : toLowerCase(users[i].primaryEmail) = toLowerCase(email)

\* POST /users with the newUser built by SyncEngine.createUser; the directory
\* keeps primary addresses unique and rejects a second account for one.
directoryCreateUser(users, action) ==
    IF hasAccount(users, action.student.email) THEN users
    ELSE Append(users,
                [id |-> "",
                 primaryEmail |-> action.student.email,
                 givenName |-> action.student.firstName,
                 familyName |-> action.student.lastName,
                 orgUnitPath |-> action.targetOUPath,
                 suspended |-> FALSE,
                 externalIds |-> <<[value |-> action.student.studentId,
                                    type |-> "custom",
                                    customType |-> "student_id"]>>])

\* PUT /users/{userKey} with {orgUnitPath}
directoryMoveUser(users, userKey, orgUnitPath) ==
    [i \in 1..Len(users) |->
        IF users[i].primaryEmail = userKey
        THEN [users[i] EXCEPT !.orgUnitPath = orgUnitPath]
        ELSE users[i]]

\* PUT /users/{userKey} with {suspended: true}
directorySuspendUser(users, userKey) ==
    [i \in 1..Len(users) |->
        IF users[i].primaryEmail = userKey
        THEN [users[i] EXCEPT !.suspended = TRUE]
        ELSE users[i]]

\* POST /customer/my_customer/chromeosdevices/{deviceId}/action {move}
directoryMoveDevice(devices, deviceId, orgUnitPath) ==
    [s \in DOMAIN devices |->
        IF devices[s].deviceId = deviceId
        THEN [devices[s] EXCEPT !.orgUnitPath = orgUnitPath]
        ELSE devices[s]]

RECURSIVE reflectUsers(_, _, _)
reflectUsers(users, plan, k) ==
    IF k > Len(plan) THEN users
    ELSE LET a == plan[k]
         IN reflectUsers(
                CASE a.type = "create" -> directoryCreateUser(users, a)
                  [] a.type = "move" ->
                        directoryMoveUser(users, a.currentUser.primaryEmail,
                                          a.targetOUPath)
                  [] a.type = "deactivate" ->
                        directorySuspendUser(users, a.currentUser.primaryEmail)
                  [] OTHER -> users,
                plan, k + 1)

RECURSIVE reflectDevices(_, _, _)
reflectDevices(devices, plan, k) ==
    IF k > Len(plan) THEN devices
    ELSE LET a == plan[k]
         IN reflectDevices(
                IF a.type = "move_device"
                THEN directoryMoveDevice(devices, a.currentDevice.deviceId,
                                         a.targetOUPath)
                ELSE devices,
                plan, k + 1)

\* the snapshot shows the effect of one action
reflected(a, users, devices) ==
    CASE a.type = "create" ->
            \E i \in 1..Len(users) :
                /\ users[i].primaryEmail = a.student.email
                /\ users[i].orgUnitPath = a.targetOUPath
      [] a.type = "move" ->
            \A i \in 1..Len(users) :
                users[i].primaryEmail = a.currentUser.primaryEmail
                    => users[i].orgUnitPath = a.targetOUPath
      [] a.type = "deactivate" ->
            \A i \in 1..Len(users) :
                users[i].primaryEmail = a.currentUser.primaryEmail
                    => users[i].suspended
      [] a.type = "move_device" ->
            \A s \in DOMAIN devices :
                devices[s].deviceId = a.currentDevice.deviceId
                    => devices[s].orgUnitPath = a.targetOUPath
      [] OTHER -> TRUE

faithful(plan, users, devices) ==
    \A k \in 1..Len(plan) : reflected(plan[k], users, devices)

-----------------------------------------------------------------------------
(* Bounded inputs of the planner *)

MaxRoster == 2
MaxUsers == 2

Dates == {[year |-> 2026, month |-> 11], [year |-> 2026, month |-> 3]}

Student(id, first, last, grade, email, year, status, serial) ==
    [studentId |-> id, firstName |-> first, lastName |-> last, grade |-> grade,
     email |-> email, graduationYear |-> year, status |-> status,
     deviceSerial |-> serial]

StudentPool ==
    << Student("1001", "John", "Doe", "9", "jdoe@x.io", 2030, "", "CHR1"),
       Student("1002", "Ann", "O'Lee", "unknown", "", 2033, "", "CHR2"),
       Student("1004", "Cy", "Fox", "12", "cfox@x.io", 2026, "", ""),
       Student("1005", "Di", "Kim", "8", "dkim@x.io", 2031, "transferred", "CHR2"),
       Student("1006", "Jo", "Doe", "5", "jo.doe@x.io", 2034, "", "CHR1"),
       Student("1007", "Jon", "Doe", "12", "JDoe@x.io", 2027, "", "") >>

User(id, email, path, suspended, externalIds) ==
    [id |-> id, primaryEmail |-> email, givenName |-> "G", familyName |-> "F",
     orgUnitPath |-> path, suspended |-> suspended, externalIds |-> externalIds]

StudentIdOf(v) == <<[value |-> v, type |-> "custom", customType |-> "student_id"]>>

UserPool ==
    << User("u1", "JDoe@x.io", "/org/student/high/2030/john.doe", FALSE, <<>>),
       User("u2", "old.jd@x.io", "", FALSE, StudentIdOf("1001")),
       User("u3", "cfox@x.io", "/org/student/high/2026/cy.fox", FALSE,
            StudentIdOf("1001")),
       User("u4", "dkim@x.io", "/org/student/middle/2031/di.kim", TRUE, <<>>),
       User("u5", "zed@x.io", "/org/student/middle/2031/zed.z", FALSE,
            <<[value |-> "1004", type |-> "organization", customType |-> ""]>>),
       User("", "it@x.io", "/org/student-staff/it", FALSE, <<>>),
       User("u7", "old@x.io", "/org/student/archived/2020/old.kid", FALSE,
            StudentIdOf("999")) >>

Device(id, serial, path) ==
    [deviceId |-> id, serialNumber |-> serial, orgUnitPath |-> path]

DeviceSnapshots ==
    { <<>>,
      [s \in {"CHR1"} |-> Device("d1", "CHR1", "/org/student/high/2030/john.doe")],
      [s \in {"CHR1", "CHR2"} |->
          IF s = "CHR1" THEN Device("d1", "CHR1", "")
          ELSE Device("d2", "CHR2", "/org/devices")] }

\* the three mode flags main() sets from the command line: none, each one
\* alone, and two at once
Modes ==
    { m \in [createOnly : BOOLEAN, moveOnly : BOOLEAN, deactivateOnly : BOOLEAN] :
        ~(m.deactivateOnly /\ (m.createOnly \/ m.moveOnly)) }

\* the elements of pool at the positions in idx, in pool order
RECURSIVE pick(_, _, _)
pick(pool, idx, i) ==
    IF i > Len(pool) THEN <<>>
    ELSE (IF i \in idx THEN <<pool[i]>> ELSE <<>>) \o pick(pool, idx, i + 1)

Choices(pool, max) ==
    { pick(pool, idx, 1) : idx \in {x \in SUBSET (1..Len(pool)) : Cardinality(x) <= max} }

\* defaults of loadConfig
DefaultMaxConcurrentRequests == 10
DefaultConfirmationThreshold == 10

\* PasswordConfig; an absent includeUppercase, includeLowercase or
\* includeNumbers reads as TRUE and an absent includeSymbols as FALSE, as the
\* tests of buildCharacterSet treat them
PasswordConfig(type, upper, lower, numbers, symbols, customPattern) ==
    [type |-> type, includeUppercase |-> upper, includeLowercase |-> lower,
     includeNumbers |-> numbers, includeSymbols |-> symbols,
     customPattern |-> customPattern]

\* getDefaultPasswordConfig
DefaultPasswordConfig ==
    PasswordConfig("prefix_studentid", TRUE, TRUE, TRUE, FALSE, "")

\* password strategies of config.json: none, random with the default
\* classes, random with every class disabled
PasswordConfigs ==
    { DefaultPasswordConfig,
      PasswordConfig("random", TRUE, TRUE, TRUE, FALSE, ""),
      PasswordConfig("random", FALSE, FALSE, FALSE, FALSE, "") }

Config(mode, dryRun, threshold, limit, passwordConfig) ==
    [ouRoot |-> "/org/student",
     passwordConfig |-> passwordConfig,
     createOnly |-> mode.createOnly,
     moveOnly |-> mode.moveOnly,
     deactivateOnly |-> mode.deactivateOnly,
     dryRun |-> dryRun,
     requireConfirmationThreshold |-> threshold,
     maxConcurrentRequests |-> limit]

NoCalls ==
    [listUsers |-> 0, getChromeDevice |-> 0, listOrganizationalUnits |-> 0,
     createOrganizationalUnit |-> 0, createUser |-> 0, moveUserToOU |-> 0,
     suspendUser |-> 0, updateUser |-> 0, moveChromeDeviceToOU |-> 0]

\* const summary: SyncSummary = {...}
NewSummary ==
    [totalProcessed |-> 0, created |-> 0, moved |-> 0, deactivated |-> 0,
     updated |-> 0, errors |-> 0, results |-> <<>>]

NoRequest == attempt = 0 /\ responses = <<>> /\ delay = 0

InitRun ==
    /\ missingOUs = <<>>
    /\ calls = NoCalls
    /\ confirmation = "none"
    /\ batchStart = 0
    /\ inflight = {}
    /\ settled = <<>>
    /\ dispatched = <<>>
    /\ apiFailed = {}
    /\ results = <<>>
    /\ summary = NewSummary

-----------------------------------------------------------------------------
(* Planner specification: plan, let the directory reflect the plan, plan    *)
(* again.                                                                    *)

InitPlan ==
    /\ pc = "plan"
    /\ now \in Dates
    /\ config \in {Config(m, FALSE, DefaultConfirmationThreshold,
                            DefaultMaxConcurrentRequests, DefaultPasswordConfig) :
                      m \in Modes}
    /\ students \in Choices(StudentPool, MaxRoster)
    /\ existingUsers \in Choices(UserPool, MaxUsers)
    /\ existingDevices \in DeviceSnapshots
    /\ actions = <<>>
    /\ firstPlan = <<>>
    /\ applied = FALSE
    /\ InitRun
    /\ NoRequest
    /\ input = None
    /\ output = None

Plan ==
    /\ pc = "plan"
    /\ actions' = determineActions(students, existingUsers, existingDevices)
    /\ pc' = "planned"
    /\ UNCHANGED <<requestVars, callVars, now, config, students, existingUsers, existingDevices,
                   firstPlan, applied, runVars>>

Reflect ==
    /\ pc = "planned"
    /\ LET users == reflectUsers(existingUsers, actions, 1)
           devices == reflectDevices(existingDevices, actions, 1)
       IN /\ existingUsers' = users
          /\ existingDevices' = devices
          /\ applied' = faithful(actions, users, devices)
    /\ firstPlan' = actions
    /\ pc' = "reflected"
    /\ UNCHANGED <<requestVars, callVars, now, config, students, actions, runVars>>

Replan ==
    /\ pc = "reflected"
    /\ actions' = determineActions(students, existingUsers, existingDevices)
    /\ pc' = "replanned"
    /\ UNCHANGED <<requestVars, callVars, now, config, students, existingUsers, existingDevices,
                   firstPlan, applied, runVars>>

\* one planning run
SpecPlan == InitPlan /\ [][Plan]_vars

\* a planning run, the directory reflecting the plan, and a second run
NextReplan == Plan \/ Reflect \/ Replan

SpecReplan == InitPlan /\ [][NextReplan]_vars

-----------------------------------------------------------------------------
(* OUManager.getRequiredOUs and SyncEngine.ensureRequiredOUs *)

\* gradeMapping[grade].schoolLevel; "" stands for a grade the table lacks
gradeMapping(grade) ==
    IF grade \in {"4K", "K", "1", "2", "3", "4", "5"} THEN "elementary"
    ELSE IF grade \in {"6", "7", "8"} THEN "middle"
    ELSE IF grade \in {"9", "10", "11", "12"} THEN "high"
    ELSE ""

\* getSchoolLevel throws exactly when the mapping is missing
getSchoolLevelThrows(grade) == gradeMapping(grade) = ""

getSchoolLevel(grade) == gradeMapping(grade)

getSchoolLevelOUPath(schoolLevel) == baseStudentOU \o "/" \o schoolLevel

getGraduationYearOUPath(schoolLevel, graduationYear) ==
    baseStudentOU \o "/" \o schoolLevel \o "/" \o ToString(graduationYear)

\* Set.add on a set kept in insertion order
setAdd(seq, x) ==
    IF \E k \in 1..Len(seq) : seq[k] = x THEN seq ELSE Append(seq, x)

RECURSIVE setAddAll(_, _, _)
setAddAll(seq, xs, k) ==
    IF k > Len(xs) THEN seq ELSE setAddAll(setAdd(seq, xs[k]), xs, k + 1)

\* the first loop of getRequiredOUs: schoolLevels, yearsBySchool and the
\* student paths, each in insertion order
RECURSIVE requiredScan(_, _, _, _, _)
requiredScan(sts, k, levels, years, paths) ==
    IF k > Len(sts) THEN [levels |-> levels, years |-> years, paths |-> paths]
    ELSE LET student == sts[k]
             schoolLevel == getSchoolLevel(student.grade)
         IN requiredScan(sts, k + 1,
                         setAdd(levels, schoolLevel),
                         setAdd(years, <<schoolLevel, student.graduationYear>>),
                         setAdd(paths, getStudentOUPath(student)))

\* the second loop: per school level, its path and then its year paths
RECURSIVE requiredLevels(_, _, _, _)
requiredLevels(levels, years, k, paths) ==
    IF k > Len(levels) THEN paths
    ELSE LET schoolLevel == levels[k]
             mine == SelectSeq(years, LAMBDA y : y[1] = schoolLevel)
             yearPaths == [n \in 1..Len(mine) |->
                              getGraduationYearOUPath(schoolLevel, mine[n][2])]
         IN requiredLevels(levels, years, k + 1,
                setAddAll(setAdd(paths, getSchoolLevelOUPath(schoolLevel)),
                          yearPaths, 1))

getRequiredOUsThrows(sts) ==
    \E k \in 1..Len(sts) : getSchoolLevelThrows(sts[k].grade)

getRequiredOUs(sts) ==
    LET scan == requiredScan(sts, 1, <<>>, <<>>, <<>>)
    IN requiredLevels(scan.levels, scan.years, 1, scan.paths)

\* path.split('/').length
splitLength(path) ==
    Cardinality({k \in 1..Len(path) : SubSeq(path, k, k) = "/"}) + 1

\* Array.prototype.sort with the depth comparator: stable, shallow first
RECURSIVE sortFrom(_, _, _)
sortFrom(paths, depth, deepest) ==
    IF depth > deepest THEN <<>>
    ELSE SelectSeq(paths, LAMBDA p : splitLength(p) = depth)
             \o sortFrom(paths, depth + 1, deepest)

sortByDepth(paths) ==
    IF paths = <<>> THEN <<>>
    ELSE LET depths == {splitLength(paths[k]) : k \in 1..Len(paths)}
             deepest == CHOOSE d \in depths : \A e \in depths : e <= d
         IN sortFrom(paths, 1, deepest)

\* missingOUs of ensureRequiredOUs for the listed paths
missingOUsFor(sts, existingPaths) ==
    sortByDepth(SelectSeq(getRequiredOUs(sts), LAMBDA path : path \notin existingPaths))

-----------------------------------------------------------------------------
(* SyncEngine.simulateActions (dry run) *)

RECURSIVE simulateActions(_, _, _)
simulateActions(sts, k, acc) ==
    IF k > Len(sts) THEN acc
    ELSE LET student == sts[k]
             status == getStudentStatus(student)
             target == getStudentOUPath(student)
             create == Action("create", student, None, None, target,
                              "New student (simulated)")
             device == Action("move_device", student, None, None, target,
                              "Move device " \o student.deviceSerial
                                  \o " to student OU (simulated)")
             deact == Action("deactivate", student, None, None, target,
                             "Student " \o status \o " (simulated)")
         IN simulateActions(sts, k + 1,
                acc \o (IF status = "active"
                        THEN <<create>> \o (IF student.deviceSerial # ""
                                            THEN <<device>> ELSE <<>>)
                        ELSE <<deact>>))

-----------------------------------------------------------------------------
(* SyncEngine.sync: fetch, ensure the OUs, plan, confirm, execute, summarise *)

MaxThreshold == 2
MaxConcurrent == 3

Whitespace == {" ", "\n", "\t", "\r"}

RECURSIVE trimStart(_)
trimStart(s) ==
    IF Len(s) > 0 /\ SubSeq(s, 1, 1) \in Whitespace
    THEN trimStart(SubSeq(s, 2, Len(s))) ELSE s

RECURSIVE trimEnd(_)
trimEnd(s) ==
    IF Len(s) > 0 /\ SubSeq(s, Len(s), Len(s)) \in Whitespace
    THEN trimEnd(SubSeq(s, 1, Len(s) - 1)) ELSE s

trim(s) == trimEnd(trimStart(s))

\* what standard input holds when the confirmation is asked
StdinInputs ==
    { [isTerminal |-> FALSE, eof |-> FALSE, text |-> "yes\n"],
      [isTerminal |-> TRUE, eof |-> TRUE, text |-> ""],
      [isTerminal |-> TRUE, eof |-> FALSE, text |-> "yes\n"],
      [isTerminal |-> TRUE, eof |-> FALSE, text |-> " YES\n"],
      [isTerminal |-> TRUE, eof |-> FALSE, text |-> "y\n"],
      [isTerminal |-> TRUE, eof |-> FALSE, text |-> "no\n"] }

confirmBulkDeactivation(stdin) ==
    IF stdin.isTerminal
    THEN IF stdin.eof THEN FALSE
         ELSE toLowerCase(trim(stdin.text)) = "yes"
    ELSE FALSE

deactivateCount(acts) == Len(ofType(acts, "deactivate"))

\* variant: the gate also asks when the count equals the threshold
needsConfirmationAtThreshold(acts) ==
    deactivateCount(acts) >= config.requireConfirmationThreshold

\* deactivateCount > this.config.requireConfirmationThreshold
needsConfirmation(acts) ==
    deactivateCount(acts) > config.requireConfirmationThreshold

Min(a, b) == IF a < b THEN a ELSE b

\* variant: the slice takes one action more than the batch size
batchOversized(acts, start) ==
    (start + 1)..Min(start + config.maxConcurrentRequests + 1, Len(acts))

\* positions (1-based) of actions.slice(i, i + batchSize)
batch(acts, start) ==
    (start + 1)..Min(start + config.maxConcurrentRequests, Len(acts))

buildCharacterSet(passwordConfig) ==
    (IF passwordConfig.includeUppercase THEN "ABCDEFGHIJKLMNOPQRSTUVWXYZ" ELSE "")
        \o (IF passwordConfig.includeLowercase
            THEN "abcdefghijklmnopqrstuvwxyz" ELSE "")
        \o (IF passwordConfig.includeNumbers THEN "0123456789" ELSE "")
        \o (IF passwordConfig.includeSymbols
            THEN "!@#$%^&*()_+-=[]{}|;:,.<>?" ELSE "")

\* message of the error generatePassword throws, "" when it returns
generatePasswordError(passwordConfig) ==
    CASE passwordConfig.type = "random" ->
            IF Len(buildCharacterSet(passwordConfig)) = 0
            THEN "No character sets enabled for random password generation"
            ELSE ""
      [] passwordConfig.type = "custom_function" ->
            IF passwordConfig.customPattern = ""
            THEN "Custom pattern not provided for custom_function password type"
            ELSE ""
      [] OTHER -> ""

\* the directory call a handler issues, "" when the handler throws first
handlerCall(action) ==
    CASE action.type = "create" ->
            IF generatePasswordError(config.passwordConfig) # "" THEN ""
            ELSE "createUser"
      [] action.type = "move" ->
            IF action.currentUser = None THEN "" ELSE "moveUserToOU"
      [] action.type = "deactivate" ->
            IF action.currentUser = None THEN "" ELSE "suspendUser"
      [] action.type = "update" ->
            IF action.currentUser = None THEN "" ELSE "updateUser"
      [] action.type = "move_device" ->
            IF action.currentDevice = None \/ action.currentDevice.deviceId = ""
            THEN "" ELSE "moveChromeDeviceToOU"

\* message of the error the handler ends with, "" when it returns
handlerError(action, apiOk) ==
    IF handlerCall(action) = ""
    THEN IF action.type = "create"
         THEN generatePasswordError(config.passwordConfig)
         ELSE IF action.type = "move_device"
         THEN "Current device or device ID not provided for move device action"
         ELSE "Current user not provided for " \o action.type \o " action"
    ELSE IF apiOk THEN "" ELSE "API request failed"

SyncResult(success, action, error) ==
    [success |-> success, action |-> action, error |-> error]

\* variant: the handler's error is not caught
executeActionNoCatch(action, apiOk) ==
    LET error == handlerError(action, apiOk)
    IN IF error = ""
       THEN [thrown |-> FALSE, result |-> SyncResult(TRUE, action, "")]
       ELSE [thrown |-> TRUE, result |-> SyncResult(FALSE, action, error)]

\* executeAction: try { handler; success } catch { failure }; never rejects
executeAction(action, apiOk) ==
    LET error == handlerError(action, apiOk)
    IN IF error = ""
       THEN [thrown |-> FALSE, result |-> SyncResult(TRUE, action, "")]
       ELSE [thrown |-> FALSE, result |-> SyncResult(FALSE, action, error)]

\* the calls the handlers of the positions in ks issue
issue(counts, acts, ks) ==
    [op \in DOMAIN counts |->
        counts[op] + Cardinality({k \in ks : handlerCall(acts[k]) = op})]

\* variant: the error count is a flag, set to 1 by a failed result
tallyErrorFlag(acc, result) ==
    LET counted == [acc EXCEPT !.results = Append(@, result),
                               !.totalProcessed = @ + 1]
    IN IF result.success THEN counted ELSE [counted EXCEPT !.errors = 1]

\* one turn of the summary loop of sync
tally(acc, result) ==
    LET kind == result.action.type
        counted == [acc EXCEPT !.results = Append(@, result),
                               !.totalProcessed = @ + 1]
    IN IF result.success
       THEN [counted EXCEPT
                !.created = @ + (IF kind = "create" THEN 1 ELSE 0),
                !.moved = @ + (IF kind = "move" THEN 1 ELSE 0),
                !.deactivated = @ + (IF kind = "deactivate" THEN 1 ELSE 0),
                !.updated = @ + (IF kind = "update" THEN 1 ELSE 0)]
       ELSE [counted EXCEPT !.errors = @ + 1]

\* the summary loop of sync over the executor's results
RECURSIVE summarise(_, _, _)
summarise(rs, k, acc) ==
    IF k > Len(rs) THEN acc
    ELSE summarise(rs, k + 1, tally(acc, rs[k]))

\* rosters handed to sync: empty; an active student with a device and a
\* graduate; a graduate and a transferred student; a roster holding a grade
\* the grade table lacks
SyncRosters ==
    { <<>>,
      pick(StudentPool, {1, 3}, 1),
      pick(StudentPool, {3, 4}, 1),
      pick(StudentPool, {1, 2}, 1) }

\* what listUsers may answer
SyncUserSnapshots == Choices(pick(UserPool, {2, 3, 5}, 1), 3)

\* the devices the directory holds
DirectoryDevices ==
    [s \in {"CHR1", "CHR2"} |->
        IF s = "CHR1" THEN Device("d1", "CHR1", "")
        ELSE Device("d2", "CHR2", "/org/devices")]

\* what listOrganizationalUnits may answer
OUSnapshots ==
    { {},
      {"/org/student/high", "/org/student/high/2030", "/org/student/high/2026",
       "/org/student/middle"} }

InitSync ==
    /\ pc = "start"
    /\ now = [year |-> 2026, month |-> 11]
    /\ config \in {Config([createOnly |-> FALSE, moveOnly |-> FALSE,
                           deactivateOnly |-> FALSE], dryRun, threshold, limit,
                          passwordConfig) :
                      dryRun \in BOOLEAN,
                      passwordConfig \in PasswordConfigs,
                      threshold \in 0..MaxThreshold,
                      limit \in 0..MaxConcurrent}
    /\ students \in SyncRosters
    /\ existingUsers = <<>>
    /\ existingDevices = <<>>
    /\ actions = <<>>
    /\ firstPlan = <<>>
    /\ applied = FALSE
    /\ InitRun
    /\ NoRequest
    /\ input = None
    /\ output = None

called(op, n) == [calls EXCEPT ![op] = @ + n]

\* variant: sync never takes the dry-run branch
takesDryRunBranchNever == FALSE

\* if (this.config.dryRun) at the head of sync
takesDryRunBranch == config.dryRun

\* sync, dry run: simulate, count, return
DryRun ==
    /\ pc = "start"
    /\ takesDryRunBranch
    /\ summary' = [NewSummary EXCEPT
                      !.totalProcessed = Len(simulateActions(students, 1, <<>>))]
    /\ pc' = "done"
    /\ UNCHANGED <<requestVars, callVars, planVars, missingOUs, calls, confirmation, batchStart,
                   inflight, settled, dispatched, apiFailed, results>>

\* fetchExistingUsers: one listUsers call, which answers or throws
FetchExistingUsers ==
    /\ pc = "start"
    /\ ~takesDryRunBranch
    /\ calls' = called("listUsers", 1)
    /\ \/ /\ existingUsers' \in SyncUserSnapshots
          /\ pc' = "fetchDevices"
       \/ /\ pc' = "failed"
          /\ UNCHANGED existingUsers
    /\ UNCHANGED <<requestVars, callVars, now, config, students, existingDevices, actions, firstPlan,
                   applied, missingOUs, confirmation, batchStart, inflight,
                   settled, dispatched, apiFailed, results, summary>>

\* fetchExistingDevices: one lookup per roster serial; a failed or empty
\* lookup leaves the serial out of the map
FetchExistingDevices ==
    /\ pc = "fetchDevices"
    /\ LET serialNumbers ==
               SelectSeq([k \in 1..Len(students) |-> students[k].deviceSerial],
                         LAMBDA s : s # "")
           asked == {serialNumbers[k] : k \in 1..Len(serialNumbers)}
       IN /\ calls' = called("getChromeDevice", Len(serialNumbers))
          /\ \E found \in SUBSET (asked \cap DOMAIN DirectoryDevices) :
                existingDevices' = IF found = {} THEN <<>>
                                   ELSE [s \in found |-> DirectoryDevices[s]]
    /\ pc' = "ensureOUs"
    /\ UNCHANGED <<requestVars, callVars, now, config, students, existingUsers, actions, firstPlan,
                   applied, missingOUs, confirmation, batchStart, inflight,
                   settled, dispatched, apiFailed, results, summary>>

\* ensureRequiredOUs up to the sort: getRequiredOUs may throw, the listing
\* may throw
ListOUs ==
    /\ pc = "ensureOUs"
    /\ IF getRequiredOUsThrows(students)
       THEN /\ pc' = "failed"
            /\ UNCHANGED <<missingOUs, calls>>
       ELSE /\ calls' = called("listOrganizationalUnits", 1)
            /\ \/ \E existingPaths \in OUSnapshots :
                     /\ missingOUs' = missingOUsFor(students, existingPaths)
                     /\ pc' = "createOUs"
               \/ /\ pc' = "failed"
                  /\ UNCHANGED missingOUs
    /\ UNCHANGED <<requestVars, callVars, planVars, confirmation, batchStart, inflight, settled,
                   dispatched, apiFailed, results, summary>>

\* one turn of the creation loop
CreateOU ==
    /\ pc = "createOUs"
    /\ missingOUs # <<>>
    /\ calls' = IF ~config.dryRun THEN called("createOrganizationalUnit", 1)
                ELSE calls
    /\ \/ /\ missingOUs' = Tail(missingOUs)
          /\ UNCHANGED pc
       \/ /\ ~config.dryRun
          /\ pc' = "failed"
          /\ UNCHANGED missingOUs
    /\ UNCHANGED <<requestVars, callVars, planVars, confirmation, batchStart, inflight, settled,
                   dispatched, apiFailed, results, summary>>

\* determineActions and the bulk-deactivation gate
DetermineActions ==
    /\ pc = "createOUs"
    /\ missingOUs = <<>>
    /\ LET acts == determineActions(students, existingUsers, existingDevices)
       IN /\ actions' = acts
          /\ dispatched' = [k \in 1..Len(acts) |-> 0]
          /\ pc' = IF needsConfirmation(acts) THEN "confirm" ELSE "execute"
    /\ UNCHANGED <<requestVars, callVars, now, config, students, existingUsers, existingDevices,
                   firstPlan, applied, missingOUs, calls, confirmation,
                   batchStart, inflight, settled, apiFailed, results, summary>>

\* confirmBulkDeactivation; a denial returns the untouched summary
Confirm ==
    /\ pc = "confirm"
    /\ \E stdin \in StdinInputs :
          IF confirmBulkDeactivation(stdin)
          THEN confirmation' = "confirmed" /\ pc' = "execute"
          ELSE confirmation' = "denied" /\ pc' = "done"
    /\ UNCHANGED <<requestVars, callVars, planVars, missingOUs, calls, batchStart, inflight, settled,
                   dispatched, apiFailed, results, summary>>

\* executeActions, loop body up to the await: slice the batch and call
\* executeAction on each of its actions
StartBatch ==
    /\ pc = "execute"
    /\ batchStart < Len(actions)
    /\ LET ks == batch(actions, batchStart)
       IN /\ inflight' = ks
          /\ dispatched' = [k \in DOMAIN dispatched |->
                               dispatched[k] + (IF k \in ks THEN 1 ELSE 0)]
          /\ calls' = issue(calls, actions, ks)
    /\ settled' = <<>>
    /\ pc' = "await"
    /\ UNCHANGED <<requestVars, callVars, planVars, missingOUs, confirmation, batchStart, apiFailed,
                   results, summary>>

\* one pending executeAction settles, its directory call answered or failed
Settle(k) ==
    /\ pc = "await"
    /\ k \in inflight
    /\ \E apiOk \in BOOLEAN :
          LET outcome == executeAction(actions[k], apiOk)
          IN /\ apiFailed' = IF handlerError(actions[k], apiOk) # ""
                             THEN apiFailed \cup {k} ELSE apiFailed
             /\ inflight' = inflight \ {k}
             /\ IF outcome.thrown
                THEN pc' = "failed" /\ UNCHANGED settled
                ELSE /\ settled' = [j \in DOMAIN settled \cup {k} |->
                                       IF j = k THEN outcome.result ELSE settled[j]]
                     /\ UNCHANGED pc
    /\ UNCHANGED <<requestVars, callVars, planVars, missingOUs, calls, confirmation, batchStart,
                   dispatched, results, summary>>

batchResultsReversed(settledResults, first) ==
    LET count == Cardinality(DOMAIN settledResults)
    IN [n \in 1..count |-> settledResults[first + count - n]]

\* the value of Promise.all(batchPromises): the results in the order of the
\* promises, whatever the order they settled in
batchResults(settledResults, first) ==
    LET count == Cardinality(DOMAIN settledResults)
    IN [n \in 1..count |-> settledResults[first + n - 1]]

\* Promise.all resolves: the batch results are pushed in batch order
AwaitBatch ==
    /\ pc = "await"
    /\ inflight = {}
    /\ results' = results \o batchResults(settled, batchStart + 1)
    /\ batchStart' = batchStart + config.maxConcurrentRequests
    /\ pc' = "execute"
    /\ UNCHANGED <<requestVars, callVars, planVars, missingOUs, calls, confirmation, inflight, settled,
                   dispatched, apiFailed, summary>>

\* executeActions returns; sync folds the results into the summary
Summarise ==
    /\ pc = "execute"
    /\ ~(batchStart < Len(actions))
    /\ summary' = summarise(results, 1, NewSummary)
    /\ pc' = "done"
    /\ UNCHANGED <<requestVars, callVars, planVars, missingOUs, calls, confirmation, batchStart,
                   inflight, settled, dispatched, apiFailed, results>>

NextSync ==
    \/ DryRun
    \/ FetchExistingUsers
    \/ FetchExistingDevices
    \/ ListOUs
    \/ CreateOU
    \/ DetermineActions
    \/ Confirm
    \/ StartBatch
    \/ \E k \in 1..Len(actions) : Settle(k)
    \/ AwaitBatch
    \/ Summarise

SpecSync == InitSync /\ [][NextSync]_vars

-----------------------------------------------------------------------------
(* Calls of the OUManager methods on their own *)

MaxYearsAhead == 9

DigitOf ==
    [c \in {"0", "1", "2", "3", "4", "5", "6", "7", "8", "9"} |->
        CASE c = "0" -> 0 [] c = "1" -> 1 [] c = "2" -> 2 [] c = "3" -> 3
          [] c = "4" -> 4 [] c = "5" -> 5 [] c = "6" -> 6 [] c = "7" -> 7
          [] c = "8" -> 8 [] c = "9" -> 9]

\* the longest run of decimal digits of s from position k on
RECURSIVE readDigits(_, _, _, _)
readDigits(s, k, value, count) ==
    IF k <= Len(s) /\ SubSeq(s, k, k) \in DOMAIN DigitOf
    THEN readDigits(s, k + 1, value * 10 + DigitOf[SubSeq(s, k, k)], count + 1)
    ELSE [value |-> value, count |-> count]

\* parseInt(s, 10): leading white space, a sign, then digits; {} is NaN
parseInt(s) ==
    LET text == trimStart(s)
        sign == IF Len(text) > 0 THEN SubSeq(text, 1, 1) ELSE ""
        digits == readDigits(text, IF sign \in {"+", "-"} THEN 2 ELSE 1, 0, 0)
    IN IF digits.count = 0 THEN {}
       ELSE {IF sign = "-" THEN 0 - digits.value ELSE digits.value}

isValidSchoolLevel(level) == level \in {"elementary", "middle", "high"}

\* parseOUPath; an absent field of the result is the empty set
parseOUPath(ouPath) ==
    IF ~startsWith(ouPath, baseStudentOU)
    THEN [schoolLevel |-> {}, graduationYear |-> {}, studentId |-> {}]
    ELSE LET relativePath == SubSeq(ouPath, Len(baseStudentOU) + 1, Len(ouPath))
             parts == pathParts(relativePath)
         IN [schoolLevel |->
                 IF Len(parts) >= 1 /\ isValidSchoolLevel(parts[1])
                 THEN {parts[1]} ELSE {},
             graduationYear |->
                 IF Len(parts) >= 2 THEN parseInt(parts[2]) ELSE {},
             studentId |->
                 IF Len(parts) >= 3 THEN {parts[3]} ELSE {}]

\* students whose path is built and parsed back
PathStudents ==
    {StudentPool[k] : k \in 1..Len(StudentPool)}
        \cup {Student("2001", "Mary-Jane", "Van Der 3rd", "10", "", 2029, "", ""),
              Student("2002", "!!", "??", "K", "", 2035, "", "")}

RoundTripInputs == {[op |-> "roundTrip", student |-> s] : s \in PathStudents}

\* paths handed to parseOUPath: outside the root, siblings of the root whose
\* name starts with the root's text, the root, containers, leaves
ParsePaths ==
    {"", "/org/other/path", "/org/student-staff/high/2028/it",
     "/org/studenthigh/2028/john", "/org/student", "/org/student/middle",
     "/org/student/middle/2031", "/org/student/high/2028/john.doe",
     "/org/student/archived/2020x/old.kid", "/test/high", "/test/high/2028/john.doe"}

ParseInputs == {[op |-> "parseOUPath", ouPath |-> path] : path \in ParsePaths}

\* the months of a year, as new Date() reports them
CallDates == {[year |-> 2026, month |-> m] : m \in 1..12}

\* values of ouRoot: the default, the root of the tests, a root written with
\* a trailing slash
Roots == {"/org/student", "/test", "/org/student/"}

LevelInputs ==
    {[op |-> "getSchoolLevelFromGradYear", graduationYear |-> y] :
        y \in (2026 - 1)..(2026 + MaxYearsAhead)}

\* Password generation.  An optional configuration value is a set: {} when
\* absent, {v} when present.
LegacyPrefix == "lh00"

sliceLast(s, n) ==
    IF Len(s) <= n THEN s ELSE SubSeq(s, Len(s) - n + 1, Len(s))

RECURSIVE padStart(_, _, _)
padStart(s, n, fill) ==
    IF Len(s) >= n THEN s ELSE padStart(fill \o s, n, fill)

\* `value || fallback` on an optional string: absent and "" are both falsy.
orElse(opt, fallback) ==
    IF opt = {} \/ opt = {""} THEN fallback ELSE CHOOSE v \in opt : TRUE

generatePrefixStudentIdPasswordFirst4(studentId, prefix) ==
    LET numericPart == KeepChars(studentId, DOMAIN DigitOf, 1, "")
        first4Digits == padStart(SubSeq(numericPart, 1,
                                        Min(4, Len(numericPart))), 4, "0")
    IN orElse(prefix, LegacyPrefix) \o first4Digits

generatePrefixStudentIdPassword(studentId, prefix) ==
    LET numericPart == KeepChars(studentId, DOMAIN DigitOf, 1, "")
        last4Digits == padStart(sliceLast(numericPart, 4), 4, "0")
    IN orElse(prefix, LegacyPrefix) \o last4Digits

getDefaultPasswordConfig(passwordPrefix) ==
    [type |-> "prefix_studentid",
     prefix |-> {orElse(passwordPrefix, LegacyPrefix)}]

\* The random and the template strategies are other methods; the result
\* names the method the call is handed to.
generatePassword(studentId, passwordPrefix, passwordConfigOpt) ==
    LET passwordConfig ==
            IF passwordConfigOpt = {}
            THEN getDefaultPasswordConfig(passwordPrefix)
            ELSE CHOOSE c \in passwordConfigOpt : TRUE
    IN CASE passwordConfig.type = "prefix_studentid" ->
              [password |-> generatePrefixStudentIdPassword(
                                studentId, passwordConfig.prefix)]
         [] passwordConfig.type = "random" ->
              [handedTo |-> "generateRandomPassword"]
         [] passwordConfig.type = "custom_function" ->
              [handedTo |-> "generateCustomPatternPassword"]
         [] OTHER ->
              [password |-> generatePrefixStudentIdPassword(
                                studentId,
                                {orElse(passwordPrefix, LegacyPrefix)})]

StudentIds ==
    {"STU0001", "STU001", "12345", "NO_NUMBERS", "", "1234567890", "99",
     "A1B2C3"}

PasswordPrefixes == {{}, {""}, {"school"}}

PasswordStrategies ==
    {{}} \cup {{[type |-> type, prefix |-> prefix]} :
                  type \in {"prefix_studentid", "random", "custom_function",
                            "legacy"},
                  prefix \in {{}, {"pw"}}}

PasswordInputs ==
    {[op |-> "generatePassword", studentId |-> id, passwordPrefix |-> prefix,
      passwordConfig |-> strategy] :
        id \in StudentIds, prefix \in PasswordPrefixes,
        strategy \in PasswordStrategies}

\* Email derivation.  The method declares two parameters; a third argument
\* at the call site is dropped.
LowerAlpha == LowerAlnum \ DOMAIN DigitOf

generateEmailAddress(student, domain) ==
    LET firstName == KeepChars(toLowerCase(student.firstName), LowerAlpha,
                               1, "")
        lastName == KeepChars(toLowerCase(student.lastName), LowerAlpha,
                              1, "")
        year == student.graduationYear
    IN firstName \o "." \o lastName \o ToString(year) \o "@" \o domain

EmailConfigs ==
    {{}, {[graduationYearFormat |-> "two-digit", separator |-> {"."}]},
     {[graduationYearFormat |-> "two-digit", separator |-> {}]},
     {[graduationYearFormat |-> "four-digit", separator |-> {}]}}

EmailInputs ==
    {[op |-> "generateEmailAddress", student |-> student,
      domain |-> "school.edu", emailConfig |-> emailConfig] :
        student \in {Student("STU001", "John", "Doe", "9", "", 2028, "", ""),
                      Student("STU002", "Mary-Jane", "O'Brien", "6", "",
                              2031, "", "")},
        emailConfig \in EmailConfigs}

\* Graduation year from the grade table.
GradeCodes ==
    {"4K", "K", "1", "2", "3", "4", "5", "6", "7", "8", "9", "10", "11", "12"}

gradeNumber(grade) ==
    CASE grade = "4K" -> -1
      [] grade = "K" -> 0
      [] OTHER -> CHOOSE n \in 1..12 : ToString(n) = grade

calculateGraduationYearNoOffset(grade) ==
    IF grade \notin GradeCodes
    THEN [threw |-> TRUE, graduationYear |-> 0]
    ELSE LET yearsUntilGraduation == 12 - gradeNumber(grade)
         IN [threw |-> FALSE,
             graduationYear |-> currentSchoolYear + yearsUntilGraduation]

calculateGraduationYear(grade) ==
    IF grade \notin GradeCodes
    THEN [threw |-> TRUE, graduationYear |-> 0]
    ELSE LET yearsUntilGraduation == 12 - gradeNumber(grade)
         IN [threw |-> FALSE,
             graduationYear |-> currentSchoolYear + yearsUntilGraduation + 1]

GraduationInputs ==
    {[op |-> "calculateGraduationYear", grade |-> grade] :
        grade \in GradeCodes \cup {"unknown", "13", ""}}

RequiredInputs ==
    {[op |-> "getRequiredOUs", students |-> roster] :
        roster \in Choices(StudentPool, MaxRoster)}

CallInputs ==
    LevelInputs \cup RoundTripInputs \cup ParseInputs \cup RequiredInputs
        \cup PasswordInputs \cup EmailInputs \cup GraduationInputs

InitCall ==
    /\ pc = "call"
    /\ now \in CallDates
    /\ config \in {[Config([createOnly |-> FALSE, moveOnly |-> FALSE,
                            deactivateOnly |-> FALSE], FALSE,
                           DefaultConfirmationThreshold,
                           DefaultMaxConcurrentRequests, DefaultPasswordConfig)
                       EXCEPT !.ouRoot = root] : root \in Roots}
    /\ students = <<>>
    /\ existingUsers = <<>>
    /\ existingDevices = <<>>
    /\ actions = <<>>
    /\ firstPlan = <<>>
    /\ applied = FALSE
    /\ InitRun
    /\ NoRequest
    /\ input \in CallInputs
    /\ output = None

CallGetSchoolLevelFromGradYear ==
    /\ pc = "call"
    /\ input.op = "getSchoolLevelFromGradYear"
    /\ output' = getSchoolLevelFromGradYear(input.graduationYear)
    /\ pc' = "returned"
    /\ UNCHANGED <<requestVars, planVars, runVars, input>>

\* parseOUPath(getStudentOUPath(student))
CallRoundTrip ==
    /\ pc = "call"
    /\ input.op = "roundTrip"
    /\ LET path == getStudentOUPath(input.student)
       IN output' = [path |-> path, parsed |-> parseOUPath(path)]
    /\ pc' = "returned"
    /\ UNCHANGED <<requestVars, planVars, runVars, input>>

CallParseOUPath ==
    /\ pc = "call"
    /\ input.op = "parseOUPath"
    /\ output' = parseOUPath(input.ouPath)
    /\ pc' = "returned"
    /\ UNCHANGED <<requestVars, planVars, runVars, input>>

CallGetRequiredOUs ==
    /\ pc = "call"
    /\ input.op = "getRequiredOUs"
    /\ output' = IF getRequiredOUsThrows(input.students)
                 THEN [threw |-> TRUE, paths |-> <<>>]
                 ELSE [threw |-> FALSE, paths |-> getRequiredOUs(input.students)]
    /\ pc' = "returned"
    /\ UNCHANGED <<requestVars, planVars, runVars, input>>

CallGeneratePassword ==
    /\ pc = "call"
    /\ input.op = "generatePassword"
    /\ output' = generatePassword(input.studentId, input.passwordPrefix,
                                  input.passwordConfig)
    /\ pc' = "returned"
    /\ UNCHANGED <<requestVars, planVars, runVars, input>>

\* createUser: this.ouManager.generateEmailAddress(student, domain,
\* this.config.emailConfig)
CallGenerateEmailAddress ==
    /\ pc = "call"
    /\ input.op = "generateEmailAddress"
    /\ output' = generateEmailAddress(input.student, input.domain)
    /\ pc' = "returned"
    /\ UNCHANGED <<requestVars, planVars, runVars, input>>

CallCalculateGraduationYear ==
    /\ pc = "call"
    /\ input.op = "calculateGraduationYear"
    /\ output' = calculateGraduationYear(input.grade)
    /\ pc' = "returned"
    /\ UNCHANGED <<requestVars, planVars, runVars, input>>

NextCall ==
    \/ CallCalculateGraduationYear
    \/ CallGeneratePassword
    \/ CallGenerateEmailAddress
    \/ CallGetSchoolLevelFromGradYear
    \/ CallRoundTrip
    \/ CallParseOUPath
    \/ CallGetRequiredOUs

SpecOUManager == InitCall /\ [][NextCall]_vars

-----------------------------------------------------------------------------
(* GoogleAPIClient.makeAPIRequest: one call, its HTTP attempts and waits *)

\* default of the parameter retries; no caller passes another value
DefaultRetries == 3

DefaultRetryAfter == 60

\* (method, endpoint) of the callers
Requests ==
    {<<"GET", "/users">>, <<"POST", "/users">>, <<"PUT", "/users/key">>,
     <<"GET", "/customer/my_customer/orgunits">>,
     <<"POST", "/customer/my_customer/orgunits">>,
     <<"POST", "/customer/my_customer/devices/chromeos/moveDevicesToOu">>}

RequestInputs ==
    {[op |-> "makeAPIRequest", method |-> r[1], endpoint |-> r[2],
      retries |-> DefaultRetries] : r \in Requests}

InitRequest ==
    /\ pc = "token"
    /\ now \in {[year |-> 2026, month |-> 11]}
    /\ config = Config([createOnly |-> FALSE, moveOnly |-> FALSE,
                        deactivateOnly |-> FALSE], FALSE,
                       DefaultConfirmationThreshold,
                       DefaultMaxConcurrentRequests, DefaultPasswordConfig)
    /\ students = <<>>
    /\ existingUsers = <<>>
    /\ existingDevices = <<>>
    /\ actions = <<>>
    /\ firstPlan = <<>>
    /\ applied = FALSE
    /\ InitRun
    /\ NoRequest
    /\ input \in RequestInputs
    /\ output = None

loopContinuesOnceMore(n, retries) == n <= retries + 1

\* the loop condition attempt <= retries
loopContinues(n, retries) == n <= retries

\* const token = await this.getAccessToken()
GetAccessToken ==
    /\ pc = "token"
    /\ \E ok \in BOOLEAN :
          IF ok THEN pc' = "attempt" /\ UNCHANGED output
          ELSE pc' = "threw" /\ output' = [threw |-> "Token request failed"]
    /\ UNCHANGED <<planVars, runVars, input, requestVars>>

\* fetch answers with an ok status and a body that parses
FetchOk ==
    /\ pc = "attempt"
    /\ responses' = Append(responses, "ok")
    /\ output' = [returned |-> "response"]
    /\ pc' = "returned"
    /\ UNCHANGED <<planVars, runVars, input, attempt, delay>>

\* fetch answers 429: wait Retry-After seconds, continue; the loop ends
\* with Max retries exceeded when the condition fails
FetchRateLimited ==
    /\ pc = "attempt"
    /\ responses' = Append(responses, "429")
    /\ \E retryAfter \in {1, DefaultRetryAfter} : delay' = retryAfter * 1000
    /\ attempt' = attempt + 1
    /\ IF loopContinues(attempt + 1, input.retries)
       THEN UNCHANGED <<pc, output>>
       ELSE pc' = "threw" /\ output' = [threw |-> "Max retries exceeded"]
    /\ UNCHANGED <<planVars, runVars, input>>

\* fetch rejects (network error), or answers a status that is not ok and
\* the handler throws API Error: the catch block rethrows on the last
\* attempt and otherwise waits 2^attempt seconds
FetchFails ==
    /\ pc = "attempt"
    /\ \E kind \in {"API Error", "network error"} :
          /\ responses' = Append(responses, kind)
          /\ IF attempt = input.retries
             THEN /\ pc' = "threw"
                  /\ output' = [threw |-> kind]
                  /\ UNCHANGED <<attempt, delay>>
             ELSE /\ delay' = (2 ^ attempt) * 1000
                  /\ attempt' = attempt + 1
                  /\ IF loopContinues(attempt + 1, input.retries)
                     THEN UNCHANGED <<pc, output>>
                     ELSE /\ pc' = "threw"
                          /\ output' = [threw |-> "Max retries exceeded"]
    /\ UNCHANGED <<planVars, runVars, input>>

NextRequest ==
    \/ GetAccessToken
    \/ FetchOk
    \/ FetchRateLimited
    \/ FetchFails

\* every fetch and every timer of a wait eventually answers
SpecRequest ==
    InitRequest /\ [][NextRequest]_vars /\ WF_vars(NextRequest)

-----------------------------------------------------------------------------
(* Properties of the planner, checked under SpecPlan *)

\* actions is the plan of the current snapshots
PlanReady == pc = "planned"

NoMode == ~config.createOnly /\ ~config.moveOnly /\ ~config.deactivateOnly

OnlyMode(kind) ==
    /\ config.createOnly = (kind = "create")
    /\ config.moveOnly = (kind = "move")
    /\ config.deactivateOnly = (kind = "deactivate")

\* positions of the plan's actions of a kind for a directory account
ActionsFor(kind, user) ==
    {k \in 1..Len(actions) : actions[k].type = kind /\ actions[k].currentUser = user}

Kinds(plan) == {plan[k].type : k \in 1..Len(plan)}

\* C1: planner idempotence. When the directory reflects every action of the
\* plan (created accounts exist at their target path with the roster email,
\* moved accounts and devices sit at their target path, deactivated accounts
\* are suspended), planning again at the same date yields the empty plan.
C1_Idempotence ==
    (pc = "replanned" /\ applied) => actions = <<>>

UnderRoot(ouPath) ==
    \/ ouPath = baseStudentOU
    \/ startsWith(ouPath, baseStudentOU \o "/")

\* a path below the root passes through a hidden, archived or suspended node
InHiddenBranch(ouPath) ==
    LET parts == pathParts(SubSeq(ouPath, Len(baseStudentOU) + 1, Len(ouPath)))
    IN \E k \in 1..Len(parts) :
          parts[k] \in {"hidden_aliases", "archived", "suspended"}

\* C7: an account that matches no roster record gets a Deactivate iff it is
\* not suspended and its path lies under the configured root outside any
\* hidden/archived/suspended sub-branch; an unmatched account outside the root
\* (a sibling node whose name starts with the root's text included) or
\* already suspended yields no action.
C7_DeactivateUnmatched ==
    (PlanReady /\ NoMode) =>
        \A i \in 1..Len(existingUsers) :
            LET user == existingUsers[i]
            IN matchStudent(user, students) = None =>
                  /\ (ActionsFor("deactivate", user) # {})
                        <=> (/\ ~user.suspended
                             /\ UnderRoot(user.orgUnitPath)
                             /\ ~InHiddenBranch(user.orgUnitPath))
                  /\ ActionsFor("move", user) = {}

\* C8: a roster record that the accounts pass matched to a directory account
\* (by primary email or by external student identifier) never receives a
\* Create in the same plan; Create is emitted only for active records with an
\* email that no directory account was matched to.
C8_NoCreateForMatched ==
    PlanReady =>
        \A k \in 1..Len(actions) :
            actions[k].type = "create" =>
                /\ getStudentStatus(actions[k].student) = "active"
                /\ actions[k].student.email # ""
                /\ \A i \in 1..Len(existingUsers) :
                      matchStudent(existingUsers[i], students) # actions[k].student

\* C9: for a roster of one active student that has no directory account and
\* carries a device serial absent from the device snapshot, the plan has
\* exactly one Create and no MoveDevice.
C9_OneCreateNoDeviceMove ==
    (/\ pc = "planned"
     /\ NoMode
     /\ Len(students) = 1
     /\ getStudentStatus(students[1]) = "active"
     /\ \A i \in 1..Len(existingUsers) :
           matchStudent(existingUsers[i], students) = None
     /\ students[1].deviceSerial # ""
     /\ students[1].deviceSerial \notin DOMAIN existingDevices)
        => /\ Len(ofType(actions, "create")) = 1
           /\ Len(ofType(actions, "move_device")) = 0

\* C10: mode filter. With exactly one of create-only, move-only and
\* deactivate-only selected, every action of the returned plan has the
\* selected kind and the plan is the subsequence of that kind of the
\* unrestricted plan for the same snapshots, in the same order; with no mode
\* the full plan is returned.
C10_ModeFilter ==
    PlanReady =>
        LET full == plannedActions(students, existingUsers, existingDevices)
        IN /\ NoMode => actions = full
           /\ \A kind \in {"create", "move", "deactivate"} :
                 OnlyMode(kind) =>
                    /\ \A k \in 1..Len(actions) : actions[k].type = kind
                    /\ actions = SelectSeq(full, LAMBDA a : a.type = kind)

C10_Witness ==
    /\ PlanReady
    /\ OnlyMode("move")
    /\ {"create", "move", "deactivate"}
          \subseteq Kinds(plannedActions(students, existingUsers, existingDevices))
    /\ actions # <<>>
    /\ Kinds(actions) = {"move"}

\* positions of the roster records whose email equals the account's primary
\* address ignoring case
EmailHits(user) ==
    {k \in 1..Len(students) :
        /\ students[k].email # ""
        /\ toLowerCase(students[k].email) = toLowerCase(user.primaryEmail)}

\* positions of the roster records whose student identifier is the value of
\* an external identifier of the account tagged as student identifier
IdHits(user) ==
    {k \in 1..Len(students) :
        \E n \in 1..Len(user.externalIds) :
            /\ user.externalIds[n].type = "custom"
            /\ user.externalIds[n].customType = "student_id"
            /\ user.externalIds[n].value = students[k].studentId}

\* C11: an account is matched to a roster record whose email equals its
\* primary address ignoring case; only when there is none, to a record whose
\* student identifier is a tagged external identifier of the account; an
\* account satisfying neither rule is unmatched. The Move and Deactivate
\* actions of the plan carry the record matched this way.
C11_IdentityMatching ==
    PlanReady =>
        \A i \in 1..Len(existingUsers) :
            LET user == existingUsers[i]
                match == matchStudent(user, students)
            IN /\ EmailHits(user) # {}
                     => \E k \in EmailHits(user) : match = students[k]
               /\ (EmailHits(user) = {} /\ IdHits(user) # {})
                     => \E k \in IdHits(user) : match = students[k]
               /\ (EmailHits(user) = {} /\ IdHits(user) = {}) => match = None
               /\ \A k \in 1..Len(actions) :
                     (actions[k].currentUser = user /\ match # None)
                         => actions[k].student = match

C11_Witness ==
    /\ PlanReady
    /\ NoMode
    /\ \E i \in 1..Len(existingUsers) :
          /\ EmailHits(existingUsers[i]) # {}
          /\ IdHits(existingUsers[i]) # {}
          /\ EmailHits(existingUsers[i]) \cap IdHits(existingUsers[i]) = {}
          /\ ActionsFor("deactivate", existingUsers[i]) # {}
    /\ \E i \in 1..Len(existingUsers) :
          /\ matchStudent(existingUsers[i], students) = None
          /\ \E n \in 1..Len(existingUsers[i].externalIds), k \in 1..Len(students) :
                existingUsers[i].externalIds[n].value = students[k].studentId

\* positions of the MoveDevice actions of the plan for a roster record
DeviceMovesFor(student) ==
    {n \in 1..Len(actions) :
        actions[n].type = "move_device" /\ actions[n].student = student}

Preview(acts) ==
    [k \in 1..Len(acts) |->
        <<acts[k].type, acts[k].student, acts[k].targetOUPath>>]

\* C17: the action list of a dry run has the same kinds, students, target
\* paths and order as the plan determineActions computes for the roster
\* against a directory with no accounts and no devices.
C17_DryRunPreviewsPlan ==
    (PlanReady /\ NoMode /\ existingUsers = <<>> /\ existingDevices = <<>>)
        => Preview(simulateActions(students, 1, <<>>)) = Preview(actions)

-----------------------------------------------------------------------------
(* Properties of the run, checked under SpecSync *)

\* the plan of a real run has been determined
Planned == ~config.dryRun /\ pc \in {"confirm", "execute", "await", "done"}

\* executeActions has returned
Executed == ~config.dryRun /\ pc = "done" /\ confirmation # "denied"

\* the action at position k has been handed to executeAction
started(k) == dispatched[k] > 0

\* the promise of the action at position k has settled
completed(k) == started(k) /\ k \notin inflight

\* number (from 0) of the batch the action at position k belongs to
batchOf(k) == (k - 1) \div config.maxConcurrentRequests

\* C2: in a real run, when the plan holds more Deactivate actions than the
\* threshold, a suspend call is issued only after the confirmation step
\* returned a confirmation; when the count does not exceed the threshold the
\* confirmation step is never invoked and the executor runs the whole plan.
C2_BulkDeactivationGate ==
    LET count == deactivateCount(actions)
        threshold == config.requireConfirmationThreshold
    IN /\ (Planned /\ count > threshold /\ calls.suspendUser > 0)
              => confirmation = "confirmed"
       /\ (Planned /\ count <= threshold)
              => (confirmation = "none" /\ pc # "confirm")
       /\ (Planned /\ count <= threshold /\ pc = "done")
              => Len(results) = Len(actions)

C2_Witness ==
    /\ Executed
    /\ deactivateCount(actions) > config.requireConfirmationThreshold
    /\ config.requireConfirmationThreshold > 0
    /\ confirmation = "confirmed"
    /\ calls.suspendUser = deactivateCount(actions)

\* C3: whatever subset of the directory calls fails, no action is handed to
\* its handler twice, a failed action is recorded as a result with
\* success = false and its error, no error leaves the executor (the run
\* fails only before the first dispatch), and when the executor returns
\* every action has been dispatched exactly once and has its result.
C3_FailureIsolation ==
    /\ \A k \in DOMAIN dispatched : dispatched[k] <= 1
    /\ pc = "failed" => \A k \in DOMAIN dispatched : dispatched[k] = 0
    /\ \A k \in apiFailed :
          LET result == IF k \in DOMAIN settled THEN settled[k] ELSE results[k]
          IN /\ k \in DOMAIN settled \/ k <= Len(results)
             /\ result.action = actions[k]
             /\ ~result.success
             /\ result.error # ""
    /\ Executed =>
          /\ Len(results) = Len(actions)
          /\ \A k \in 1..Len(actions) :
                /\ dispatched[k] = 1
                /\ results[k].action = actions[k]
                /\ results[k].success = (k \notin apiFailed)

C3_Witness ==
    /\ Executed
    /\ Len(actions) >= 4
    /\ config.maxConcurrentRequests = 2
    /\ 1 \in apiFailed
    /\ 2 \notin apiFailed
    /\ Len(actions) \notin apiFailed
    /\ ~results[1].success
    /\ results[Len(actions)].success

\* C4: at every moment at most maxConcurrentRequests actions are in flight,
\* and an action is started only when every action of the batches before
\* its own has completed.
C4_BoundedConcurrency ==
    /\ Cardinality(inflight) <= config.maxConcurrentRequests
    /\ \A j \in DOMAIN dispatched :
          started(j) =>
              \A k \in DOMAIN dispatched :
                  batchOf(k) < batchOf(j) => completed(k)

C4_Witness ==
    /\ pc = "await"
    /\ batchStart > 0
    /\ config.maxConcurrentRequests >= 2
    /\ Cardinality(inflight) = config.maxConcurrentRequests
    /\ \E k \in 1..batchStart : ~results[k].success

\* C13: a run in which actions fail does not throw, and the summary it
\* returns counts exactly the failed actions as errors and every action of
\* the plan as processed.
C13_FailuresCounted ==
    /\ apiFailed # {} => pc \in {"await", "execute", "done"}
    /\ Executed =>
          /\ summary.errors = Cardinality(apiFailed)
          /\ summary.totalProcessed = Len(actions)
          /\ Len(summary.results) = Len(actions)

C13_Witness ==
    /\ Executed
    /\ Cardinality(apiFailed) >= 2
    /\ Cardinality(apiFailed) < Len(actions)
    /\ summary.errors = Cardinality(apiFailed)

\* C14: a directory call that fails while the required OUs are ensured (the
\* listing or a creation) does not abort the run: the run does not end
\* failed once the listing call has been issued.
C14_EnsureFailureTolerated ==
    ~(pc = "failed" /\ calls.listOrganizationalUnits > 0)

\* the result recorded for the action at position k, None when there is none
recorded(k) ==
    IF k \in DOMAIN settled THEN settled[k]
    ELSE IF k <= Len(results) THEN results[k]
    ELSE None

\* C15: a configuration error (the random password strategy with every
\* character class disabled) is fatal and raised before any action of the
\* plan is executed: under such a configuration no action is dispatched,
\* and the error is never the recorded failure of an action.
C15_ConfigErrorFatal ==
    /\ generatePasswordError(config.passwordConfig) # ""
          => \A k \in DOMAIN dispatched : dispatched[k] = 0
    /\ \A k \in DOMAIN dispatched :
          recorded(k) # None
              => recorded(k).error
                    # "No character sets enabled for random password generation"

-----------------------------------------------------------------------------
(* Properties of the OUManager methods, checked under SpecOUManager *)

Returned(op) == pc = "returned" /\ input.op = op

\* elementary, middle, high in the order a student passes through them
LevelRank(level) ==
    CASE level = "elementary" -> 1 [] level = "middle" -> 2 [] level = "high" -> 3

\* C18: with the school year being the calendar year from June on and the
\* year before until May, a graduation year is high when at most 4 years
\* ahead of the school year, middle when 5 to 7 and elementary when 8 or
\* more; at a fixed date a later graduation year never has a higher level.
C18_SchoolLevel ==
    Returned("getSchoolLevelFromGradYear") =>
        LET schoolYear == IF now.month >= 6 THEN now.year ELSE now.year - 1
            ahead == input.graduationYear - schoolYear
        IN /\ ahead <= 4 => output = "high"
           /\ ahead \in 5..7 => output = "middle"
           /\ ahead >= 8 => output = "elementary"
           /\ \A later \in LevelInputs :
                 later.graduationYear >= input.graduationYear
                     => LevelRank(getSchoolLevelFromGradYear(later.graduationYear))
                           <= LevelRank(output)

C18_Witness ==
    /\ Returned("getSchoolLevelFromGradYear")
    /\ now.month = 5
    /\ input.graduationYear = now.year + 3
    /\ output = "high"

\* C19: parsing the path built for a student under any root gives back the
\* school level and the graduation year the path was built from and, as
\* leaf, the normalized name firstname.lastname of the student.
C19_PathRoundTrip ==
    Returned("roundTrip") =>
        LET student == input.student
            first == KeepChars(toLowerCase(student.firstName), LowerAlnum, 1, "")
            last == KeepChars(toLowerCase(student.lastName), LowerAlnum, 1, "")
        IN /\ output.parsed.schoolLevel
                 = {getSchoolLevelFromGradYear(student.graduationYear)}
           /\ output.parsed.graduationYear = {student.graduationYear}
           /\ output.parsed.studentId = {first \o "." \o last}

C19_Witness ==
    /\ Returned("roundTrip")
    /\ config.ouRoot = "/test"
    /\ input.student.firstName = "Mary-Jane"
    /\ output.path = "/test/high/2029/maryjane.vander3rd"
    /\ output.parsed.studentId = {"maryjane.vander3rd"}

\* the segments of the root are the first segments of the path
SegmentsUnder(ouPath, root) ==
    LET mine == pathParts(ouPath)
        base == pathParts(root)
    IN /\ Len(mine) >= Len(base)
       /\ SubSeq(mine, 1, Len(base)) = base

\* C20: for a path that is not located under the configured root, a sibling
\* whose name starts with the root's text included, parseOUPath returns the
\* empty result; for a container under the root it returns only the
\* components the path holds.
C20_ForeignPathsRejected ==
    Returned("parseOUPath") =>
        LET below == Len(pathParts(input.ouPath)) - Len(pathParts(config.ouRoot))
        IN IF ~SegmentsUnder(input.ouPath, config.ouRoot)
           THEN output = [schoolLevel |-> {}, graduationYear |-> {},
                          studentId |-> {}]
           ELSE /\ below < 1 => output.schoolLevel = {}
                /\ below < 2 => output.graduationYear = {}
                /\ below < 3 => output.studentId = {}

\* C21: for every roster getRequiredOUs returns, and the set it returns
\* holds for each student the leaf path of the student and the two
\* containers above it, root/level and root/level/year, with the level of
\* the leaf path.
C21_RequiredOUClosure ==
    Returned("getRequiredOUs") =>
        /\ ~output.threw
        /\ \A k \in 1..Len(input.students) :
              LET student == input.students[k]
                  level == getSchoolLevelFromGradYear(student.graduationYear)
                  paths == {output.paths[n] : n \in 1..Len(output.paths)}
              IN /\ getStudentOUPath(student) \in paths
                 /\ (config.ouRoot \o "/" \o level) \in paths
                 /\ (config.ouRoot \o "/" \o level \o "/"
                        \o ToString(student.graduationYear)) \in paths

PrefixStrategySelected ==
    /\ input.passwordConfig # {}
    /\ \A c \in input.passwordConfig : c.type = "prefix_studentid"

\* The last four of the digits of the identifier, zero-filled on the left.
LastFourDigits(id) ==
    LET digits == KeepChars(id, DOMAIN DigitOf, 1, "")
        k == Min(4, Len(digits))
    IN SubSeq("0000", 1, 4 - k) \o SubSeq(digits, Len(digits) - k + 1,
                                          Len(digits))

\* C22 as stated: with no strategy configured or with the prefix strategy
\* selected, the password is passwordPrefix (else "lh00") followed by the
\* last four digits of the identifier, zero-padded to four.
C22_PasswordPrefixAlways ==
    (Returned("generatePassword")
        /\ (input.passwordConfig = {} \/ PrefixStrategySelected)) =>
        output = [password |->
                    orElse(input.passwordPrefix, "lh00")
                        \o LastFourDigits(input.studentId)]

\* C22 amended: the password is a prefix followed by the last four digits of
\* the identifier, zero-padded to four; with no strategy configured the
\* prefix is passwordPrefix (else "lh00"), with the prefix strategy selected
\* it is the prefix of the strategy (else "lh00").
C22_DefaultPassword ==
    Returned("generatePassword") =>
        /\ input.passwordConfig = {} =>
              output = [password |->
                          orElse(input.passwordPrefix, "lh00")
                              \o LastFourDigits(input.studentId)]
        /\ PrefixStrategySelected =>
              \A c \in input.passwordConfig :
                  output = [password |->
                              orElse(c.prefix, "lh00")
                                  \o LastFourDigits(input.studentId)]
        /\ (input.passwordConfig = {} /\ input.passwordPrefix = {}) =>
              /\ input.studentId = "STU0001" => output.password = "lh000001"
              /\ input.studentId = "12345" => output.password = "lh002345"
              /\ input.studentId = "NO_NUMBERS" =>
                    output.password = "lh000000"

C22_Witness ==
    /\ Returned("generatePassword")
    /\ input.passwordConfig = {}
    /\ input.passwordPrefix = {}
    /\ input.studentId = "12345"
    /\ output = [password |-> "lh002345"]

\* C23: for John Doe, graduation year 2028, domain school.edu, the
\* two-digit format with "." separator gives john.doe.28@school.edu, the
\* two-digit format without separator gives john.doe28@school.edu, and the
\* four-digit format and no format at all give john.doe2028@school.edu.
C23_EmailFormat ==
    (Returned("generateEmailAddress") /\ input.student.firstName = "John") =>
        /\ input.emailConfig = {} => output = "john.doe2028@school.edu"
        /\ \A c \in input.emailConfig :
              /\ c.graduationYearFormat = "four-digit" =>
                    output = "john.doe2028@school.edu"
              /\ (c.graduationYearFormat = "two-digit"
                    /\ c.separator = {"."}) =>
                    output = "john.doe.28@school.edu"
              /\ (c.graduationYearFormat = "two-digit"
                    /\ c.separator = {}) =>
                    output = "john.doe28@school.edu"

\* C24: for every grade code of the table and every as-of date, the level
\* the table gives the grade is the level derived, at the same date, from
\* the graduation year calculated for the grade, and that year is
\* 13 - gradeNumber years after the current school year.
C24_DerivationsAgree ==
    (Returned("calculateGraduationYear") /\ input.grade \in GradeCodes) =>
        /\ ~output.threw
        /\ output.graduationYear
              = currentSchoolYear + (12 - gradeNumber(input.grade)) + 1
        /\ getSchoolLevel(input.grade)
              = getSchoolLevelFromGradYear(output.graduationYear)
        /\ getSchoolLevel(input.grade)
              = (IF input.grade \in {"9", "10", "11", "12"} THEN "high"
                 ELSE IF input.grade \in {"6", "7", "8"} THEN "middle"
                 ELSE "elementary")

C24_Witness ==
    /\ Returned("calculateGraduationYear")
    /\ input.grade = "8"
    /\ now.month = 3
    /\ output = [threw |-> FALSE, graduationYear |-> 2030]
    /\ getSchoolLevelFromGradYear(output.graduationYear) = "middle"

\* C25: after a completed run totalProcessed is the sum of the per-kind
\* success counts and the error count, so every successful action, a
\* device move included, is counted under its kind.
C25_SummaryAccounting ==
    Executed =>
        summary.totalProcessed
            = summary.created + summary.moved + summary.deactivated
                + summary.updated + summary.errors

\* C26: with a concurrency limit of at least 1, whatever the order the
\* concurrent calls complete in, the results collected so far are the
\* results of the first actions of the list in the order of submission,
\* and the list the executor returns has one result per action, the i-th
\* for the i-th action.
C26_ResultOrdering ==
    (config.maxConcurrentRequests >= 1 /\ ~config.dryRun) =>
        /\ Len(results) <= Len(actions)
        /\ \A k \in 1..Len(results) : results[k].action = actions[k]
        /\ pc \in {"execute", "await"} =>
              Len(results) = Min(batchStart, Len(actions))
        /\ Executed => Len(results) = Len(actions)

C26_Witness ==
    /\ pc = "await"
    /\ config.maxConcurrentRequests >= 2
    /\ batchStart > 0
    /\ Len(results) = batchStart
    /\ (batchStart + 1) \in inflight
    /\ (batchStart + 2) \in DOMAIN settled
    /\ results[1].action = actions[1]
    /\ actions[1] # actions[2]

\* the pass that emits an action of the kind
PassOf(kind) ==
    CASE kind \in {"move", "deactivate"} -> 1
      [] kind = "create" -> 2
      [] kind = "move_device" -> 3

\* where the record the action was emitted for stands in its input list
SourcePosition(action) ==
    IF PassOf(action.type) = 1
    THEN CHOOSE n \in 1..Len(existingUsers) :
            /\ existingUsers[n] = action.currentUser
            /\ \A m \in 1..(n - 1) : existingUsers[m] # action.currentUser
    ELSE CHOOSE n \in 1..Len(students) :
            /\ students[n] = action.student
            /\ \A m \in 1..(n - 1) : students[m] # action.student

\* C27: in an unrestricted plan the Move and Deactivate actions come first,
\* in the order of the directory listing, then the Create actions in roster
\* order, then the MoveDevice actions in roster order.
C27_PlanOrdering ==
    (PlanReady /\ NoMode) =>
        \A j, k \in 1..Len(actions) :
            j < k =>
                /\ PassOf(actions[j].type) <= PassOf(actions[k].type)
                /\ PassOf(actions[j].type) = PassOf(actions[k].type) =>
                      SourcePosition(actions[j]) < SourcePosition(actions[k])

C27_Witness ==
    /\ PlanReady
    /\ NoMode
    /\ Len(actions) >= 4
    /\ {"create", "move_device"} \subseteq Kinds(actions)
    /\ Kinds(actions) \cap {"move", "deactivate"} # {}
    /\ \E j, k \in 1..Len(actions) :
          /\ j < k
          /\ PassOf(actions[j].type) = PassOf(actions[k].type)

RequestDone == pc \in {"returned", "threw"}

\* C28: a call of makeAPIRequest issues at most retries + 1 fetches (4 by
\* default) whatever mix of 429 answers, error answers and network errors
\* it meets, and it ends: it returns the successful response or throws.
C28_BoundedRetry ==
    /\ [](/\ Len(responses) <= input.retries + 1
          /\ Len(responses) <= 4
          /\ pc = "attempt" =>
                /\ Len(responses) = attempt
                /\ attempt <= input.retries
          /\ pc = "returned" =>
                /\ output = [returned |-> "response"]
                /\ responses[Len(responses)] = "ok"
          /\ pc = "threw" =>
                output \in {[threw |-> e] :
                               e \in {"Token request failed", "API Error",
                                      "network error",
                                      "Max retries exceeded"}})
    /\ <>RequestDone

C28_Witness ==
    /\ pc = "threw"
    /\ Len(responses) = 4
    /\ {"429", "API Error", "network error"}
          \subseteq {responses[n] : n \in 1..Len(responses)}

\* C29: when the bulk-deactivation confirmation is required and denied, the
\* run has issued no directory write (no OU creation, no account create,
\* update, move or suspend, no device move) and returns a summary with
\* totalProcessed = 0 and no results.
C29_DeniedLeavesDirectoryUntouched ==
    confirmation = "denied" =>
        /\ pc = "done"
        /\ calls.createOrganizationalUnit = 0
        /\ calls.createUser = 0
        /\ calls.updateUser = 0
        /\ calls.moveUserToOU = 0
        /\ calls.suspendUser = 0
        /\ calls.moveChromeDeviceToOU = 0
        /\ summary.totalProcessed = 0
        /\ summary.results = <<>>

\* C30: for every plan and every configured concurrency limit the executor
\* terminates: every turn of its loop dispatches at least one action and
\* moves the index forward, so that after ceil(n / limit) batches it
\* returns with every action executed once.  (A turn that dispatches
\* nothing and leaves the index where it was returns to the state it
\* started from, and the loop never ends.)
C30_ExecutorTermination ==
    /\ (pc = "execute" /\ batchStart < Len(actions)) =>
          /\ batch(actions, batchStart) # {}
          /\ batchStart + config.maxConcurrentRequests > batchStart
    /\ Executed =>
          /\ \A k \in DOMAIN dispatched : dispatched[k] = 1
          /\ batchStart >= Len(actions)
          /\ Len(actions) > 0 =>
                batchStart - config.maxConcurrentRequests < Len(actions)

====
